---------------------------- MODULE Spec2Model ----------------------------
(***************************************************************************)
(* A model of textify.py: the TextOverlay renderer.                        *)
(*                                                                         *)
(* The renderer object is the record `self`.  Its image buffer is kept as  *)
(* its shape together with the list of OpenCV drawing primitives the most  *)
(* recent operation applied to it (the pixels an operation writes are      *)
(* derived from that list by Covers/Written below); the contents of the    *)
(* buffer before an operation are arbitrary.                               *)
(*                                                                         *)
(* Python strings that the code inspects (the position names) are          *)
(* sequences of one-character strings, so that str.startswith and          *)
(* str.replace are computed as Python computes them.                       *)
(***************************************************************************)
EXTENDS Integers, Sequences, FiniteSets, TLC

VARIABLES
    self,        \* the TextOverlay object
    pc,          \* the caller: "idle" between calls, "returned" right after one
    call,        \* the call just made: the method and its arguments
    ret,         \* what it returned ("None", "image") or raised ("ValueError")
    configured   \* the arguments of the latest set_text_properties call, if any

vars == <<self, pc, call, ret, configured>>

\* Python's None where a list is expected (the default bbox); like the empty
\* list it is falsy, and the code only ever tests its truth value.
None == <<>>

----------------------------------------------------------------------------
(* Bounds and input sets                                                   *)

\* longest texts list handed to put_text
MaxLines == 2

\* The text lines used, with the glyph metrics the measurement rests on:
\* <<advance width, cap height + base line>> at font scale 1.
Lines == {"hi", "Tall"}

Metrics(text) ==
    CASE text = "hi" -> <<30, 21>>
      [] text = "Tall" -> <<60, 30>>
      [] OTHER -> <<0, 0>>

RECURSIVE SeqsUpTo(_, _)
SeqsUpTo(S, n) ==
    IF n = 0 THEN {<<>>}
    ELSE LET shorter == SeqsUpTo(S, n - 1)
         IN shorter \cup {Append(s, e) : s \in {t \in shorter : Len(t) = n - 1}, e \in S}

TextLists == SeqsUpTo(Lines, MaxLines)

Black == <<0, 0, 0>>
White == <<255, 255, 255>>
Green == <<0, 255, 0>>
Red == <<0, 0, 255>>

FontScales == {1, 2}
Thicknesses == {1, 3}
FontColors == {Black, Red}
BackgroundColors == {White, Green}

\* image.shape = (height, width, channels)
ImageShapes == {<<200, 200, 3>>, <<160, 240, 3>>}

\* bounding boxes [x, y, width, height], or None
BBoxes ==
    { None,
      <<50, 50, 60, 40>>,      \* the example box of the documentation
      <<50, 70, 60, 40>>,      \* outside_top leaves less than bg_padding above
      <<60, 100, 100, 60>>,    \* comfortably inside: every outside anchor fits
      <<40, 0, 60, 40>>,       \* flush against the top edge
      <<170, 150, 60, 80>> }   \* sticks out of the image at the bottom right

----------------------------------------------------------------------------
(* Python strings as character sequences                                   *)

INSIDE == <<"i", "n", "s", "i", "d", "e">>
OUTSIDE == <<"o", "u", "t", "s", "i", "d", "e">>
US == <<"_">>
TOP == <<"t", "o", "p">>
BOTTOM == <<"b", "o", "t", "t", "o", "m">>
LEFT == <<"l", "e", "f", "t">>
CENTER == <<"c", "e", "n", "t", "e", "r">>
RIGHT == <<"r", "i", "g", "h", "t">>

inside_top_left == INSIDE \o US \o TOP \o US \o LEFT
inside_top_center == INSIDE \o US \o TOP \o US \o CENTER
inside_top_right == INSIDE \o US \o TOP \o US \o RIGHT
inside_bottom_left == INSIDE \o US \o BOTTOM \o US \o LEFT
inside_bottom_center == INSIDE \o US \o BOTTOM \o US \o CENTER
inside_bottom_right == INSIDE \o US \o BOTTOM \o US \o RIGHT
outside_top_left == OUTSIDE \o US \o TOP \o US \o LEFT
outside_top_center == OUTSIDE \o US \o TOP \o US \o CENTER
outside_top_right == OUTSIDE \o US \o TOP \o US \o RIGHT
outside_bottom_left == OUTSIDE \o US \o BOTTOM \o US \o LEFT
outside_bottom_center == OUTSIDE \o US \o BOTTOM \o US \o CENTER
outside_bottom_right == OUTSIDE \o US \o BOTTOM \o US \o RIGHT
outside_left == OUTSIDE \o US \o LEFT
outside_right == OUTSIDE \o US \o RIGHT

\* names that are not anchors
inside_left == INSIDE \o US \o LEFT
inside_right == INSIDE \o US \o RIGHT
center_name == CENTER
outside_center == OUTSIDE \o US \o CENTER
top_outside == TOP \o US \o OUTSIDE

Anchors ==
    { inside_top_left, inside_top_center, inside_top_right,
      inside_bottom_left, inside_bottom_center, inside_bottom_right,
      outside_top_left, outside_top_center, outside_top_right,
      outside_bottom_left, outside_bottom_center, outside_bottom_right,
      outside_left, outside_right }

PositionNames == Anchors \cup {center_name, outside_center, top_outside, inside_left}

\* str.startswith(prefix)
startswith(s, prefix) ==
    /\ Len(s) >= Len(prefix)
    /\ SubSeq(s, 1, Len(prefix)) = prefix

\* (a replace whose result is dropped)
replace_nothing(s, old, new) == s

\* str.replace(old, new): every non-overlapping occurrence, left to right
RECURSIVE replace(_, _, _)
replace(s, old, new) ==
    IF Len(s) = 0 THEN <<>>
    ELSE IF startswith(s, old)
         THEN new \o replace(SubSeq(s, Len(old) + 1, Len(s)), old, new)
         ELSE <<Head(s)>> \o replace(Tail(s), old, new)

----------------------------------------------------------------------------
(* OpenCV primitives: what each call draws is recorded on the image        *)

Draw(fn, pts, axes, angle, color, thickness, text, scale) ==
    [fn |-> fn, pts |-> pts, axes |-> axes, angle |-> angle, color |-> color,
     thickness |-> thickness, text |-> text, scale |-> scale]

cv2_fillPoly(img, vertices, color) ==
    [img EXCEPT !.draws = Append(@, Draw("fillPoly", vertices, <<0, 0>>, 0, color, 0, "", 0))]

cv2_ellipse(img, center, axes, angle, color, thickness) ==
    [img EXCEPT !.draws = Append(@, Draw("ellipse", <<center>>, axes, angle, color, thickness, "", 0))]

cv2_line(img, pt1, pt2, color, thickness) ==
    [img EXCEPT !.draws = Append(@, Draw("line", <<pt1, pt2>>, <<0, 0>>, 0, color, thickness, "", 0))]

cv2_putText(img, text, org, fontScale, color, thickness) ==
    [img EXCEPT !.draws = Append(@, Draw("putText", <<org>>, <<0, 0>>, 0, color, thickness, text, fontScale))]

\* cv2.getTextSize(text, font, fontScale, thickness)[0] = (width, height):
\* the glyph metrics scaled, widened by the stroke
cv2_getTextSize(text, fontScale, thickness) ==
    <<Metrics(text)[1] * fontScale + thickness,
      Metrics(text)[2] * fontScale + (thickness + 1) \div 2>>

----------------------------------------------------------------------------
(* TextOverlay                                                             *)

\* __init__(image)
TextOverlay(shape) ==
    [image |-> [shape |-> shape, draws |-> <<>>],
     font |-> "FONT_HERSHEY_SIMPLEX",
     font_scale |-> 1,
     font_color |-> Black,
     thickness |-> 2,
     line_type |-> "LINE_AA",
     margin |-> 20,
     padding |-> 20,
     bg_padding |-> 10,
     corner_radius |-> 10,
     background_color |-> White]

set_text_properties(obj, font_scale, font_color, thickness, background_color) ==
    [obj EXCEPT !.font_scale = font_scale,
                !.font_color = font_color,
                !.thickness = thickness,
                !.background_color = background_color]

draw_rounded_rectangle(obj, start_point, end_point, radius, color, thickness) ==
    LET vertices ==
            << <<start_point[1] + radius, start_point[2]>>,
               <<end_point[1] - radius, start_point[2]>>,
               <<end_point[1], start_point[2] + radius>>,
               <<end_point[1], end_point[2] - radius>>,
               <<end_point[1] - radius, end_point[2]>>,
               <<start_point[1] + radius, end_point[2]>>,
               <<start_point[1], end_point[2] - radius>>,
               <<start_point[1], start_point[2] + radius>> >>
        i0 == cv2_fillPoly(obj.image, vertices, color)
        i1 == cv2_ellipse(i0, <<start_point[1] + radius, start_point[2] + radius>>,
                          <<radius, radius>>, 180, color, thickness)
        i2 == cv2_ellipse(i1, <<end_point[1] - radius, start_point[2] + radius>>,
                          <<radius, radius>>, 270, color, thickness)
        i3 == cv2_ellipse(i2, <<end_point[1] - radius, end_point[2] - radius>>,
                          <<radius, radius>>, 0, color, thickness)
        i4 == cv2_ellipse(i3, <<start_point[1] + radius, end_point[2] - radius>>,
                          <<radius, radius>>, 90, color, thickness)
    IN [obj EXCEPT !.image = i4]

\* the stroke width draw_bbox hands to the primitives (thickness += 1)
bbox_stroke_as_given(thickness) == thickness

bbox_stroke(thickness) == thickness + 1

\* the four edges and four corner arcs of draw_bbox
bbox_outline(img, bbox, radius, color, thickness) ==
    LET start_point == <<bbox[1], bbox[2]>>
        end_point == <<bbox[1] + bbox[3], bbox[2] + bbox[4]>>
        top_left == start_point
        top_right == <<end_point[1], start_point[2]>>
        bottom_left == <<start_point[1], end_point[2]>>
        bottom_right == end_point
        i1 == cv2_line(img, <<top_left[1] + radius, top_left[2]>>,
                       <<top_right[1] - radius, top_right[2]>>, color, thickness)
        i2 == cv2_line(i1, <<top_right[1], top_right[2] + radius>>,
                       <<bottom_right[1], bottom_right[2] - radius>>, color, thickness)
        i3 == cv2_line(i2, <<bottom_right[1] - radius, bottom_right[2]>>,
                       <<bottom_left[1] + radius, bottom_left[2]>>, color, thickness)
        i4 == cv2_line(i3, <<bottom_left[1], bottom_left[2] - radius>>,
                       <<top_left[1], top_left[2] + radius>>, color, thickness)
        i5 == cv2_ellipse(i4, <<top_left[1] + radius, top_left[2] + radius>>,
                          <<radius, radius>>, 180, color, thickness)
        i6 == cv2_ellipse(i5, <<top_right[1] - radius, top_right[2] + radius>>,
                          <<radius, radius>>, 270, color, thickness)
        i7 == cv2_ellipse(i6, <<bottom_right[1] - radius, bottom_right[2] - radius>>,
                          <<radius, radius>>, 0, color, thickness)
    IN cv2_ellipse(i7, <<bottom_left[1] + radius, bottom_left[2] - radius>>,
                   <<radius, radius>>, 90, color, thickness)

\* (a draw_bbox whose thickness += 1 lands on the object instead of the local)
draw_bbox_keeping_thickness(obj, bbox, color, thickness) ==
    [obj EXCEPT !.image = bbox_outline(obj.image, bbox, obj.corner_radius, color,
                                       bbox_stroke(thickness)),
                !.thickness = bbox_stroke(thickness)]

draw_bbox(obj, bbox, color, thickness) ==
    [obj EXCEPT !.image = bbox_outline(obj.image, bbox, obj.corner_radius, color,
                                       bbox_stroke(thickness))]

\* Python's truth value of a list or None
truthy(v) == v # <<>>

\* (a max that answers 0 for an empty iterable, like max(..., default=0))
py_max_default(seq) ==
    [raised |-> FALSE,
     value |-> IF Len(seq) = 0 THEN 0
               ELSE CHOOSE m \in {seq[i] : i \in 1..Len(seq)} :
                        \A i \in 1..Len(seq) : seq[i] <= m]

\* max(iterable): ValueError on an empty one
py_max(seq) ==
    IF Len(seq) = 0 THEN [raised |-> TRUE, value |-> 0]
    ELSE [raised |-> FALSE,
          value |-> CHOOSE m \in {seq[i] : i \in 1..Len(seq)} :
                        \A i \in 1..Len(seq) : seq[i] <= m]

RECURSIVE py_sum(_)
py_sum(seq) == IF Len(seq) = 0 THEN 0 ELSE Head(seq) + py_sum(Tail(seq))

\* int(n2 / 2) for a float given in halves: truncation toward zero
py_int_halves(n2) == IF n2 >= 0 THEN n2 \div 2 ELSE -((-n2) \div 2)

\* the positions dictionary of put_text
positions(obj, bbox, max_text_width, total_text_height) ==
    (inside_top_left :> <<bbox[1] + obj.margin, bbox[2] + obj.margin>>)
    @@ (inside_top_center :> <<bbox[1] + (bbox[3] - max_text_width) \div 2, bbox[2] + obj.margin>>)
    @@ (inside_top_right :> <<bbox[1] + bbox[3] - max_text_width - obj.margin, bbox[2] + obj.margin>>)
    @@ (inside_bottom_left :> <<bbox[1] + obj.margin, bbox[2] + bbox[4] - total_text_height - obj.margin>>)
    @@ (inside_bottom_center :> <<bbox[1] + (bbox[3] - max_text_width) \div 2,
                                  bbox[2] + bbox[4] - total_text_height - obj.margin>>)
    @@ (inside_bottom_right :> <<bbox[1] + bbox[3] - max_text_width - obj.margin,
                                 bbox[2] + bbox[4] - total_text_height - obj.margin>>)
    @@ (outside_top_left :> <<bbox[1] + obj.margin, bbox[2] - total_text_height - obj.margin>>)
    @@ (outside_top_center :> <<bbox[1] + (bbox[3] - max_text_width) \div 2,
                                bbox[2] - total_text_height - obj.margin>>)
    @@ (outside_top_right :> <<bbox[1] + bbox[3] - max_text_width - obj.margin,
                               bbox[2] - total_text_height - obj.margin>>)
    @@ (outside_bottom_left :> <<bbox[1] + obj.margin, bbox[2] + bbox[4] + obj.margin>>)
    @@ (outside_bottom_center :> <<bbox[1] + (bbox[3] - max_text_width) \div 2,
                                   bbox[2] + bbox[4] + obj.margin>>)
    @@ (outside_bottom_right :> <<bbox[1] + bbox[3] - max_text_width - obj.margin,
                                  bbox[2] + bbox[4] + obj.margin>>)
    @@ (outside_left :> <<bbox[1] - max_text_width - obj.margin,
                          bbox[2] + (bbox[4] - total_text_height) \div 2>>)
    @@ (outside_right :> <<bbox[1] + bbox[3] + obj.margin,
                           bbox[2] + (bbox[4] - total_text_height) \div 2>>)

\* dict.get(key, default)
dict_get(d, key, default) == IF key \in DOMAIN d THEN d[key] ELSE default

\* (an edge-fit test that forgets the bottom edge)
doesnt_fit_no_bottom(x, y, max_text_width, total_text_height, w, h) ==
    x < 0 \/ x + max_text_width > w \/ y < 0

\* the edge-fit test of put_text
doesnt_fit(x, y, max_text_width, total_text_height, w, h) ==
    x < 0 \/ x + max_text_width > w \/ y < 0 \/ y + total_text_height > h

\* the position put_text resolves: the name it ends with and its (x, y)
resolve(obj, bbox, position, max_text_width, total_text_height) ==
    LET table == positions(obj, bbox, max_text_width, total_text_height)
        default == <<obj.margin, obj.margin>>
        xy == dict_get(table, position, default)
        h == obj.image.shape[1]
        w == obj.image.shape[2]
    IN IF startswith(position, OUTSIDE)
          /\ doesnt_fit(xy[1], xy[2], max_text_width, total_text_height, w, h)
       THEN LET switched == replace(position, OUTSIDE, INSIDE)
            IN [position |-> switched, xy |-> dict_get(table, switched, default)]
       ELSE [position |-> position, xy |-> xy]

\* the corners of the background panel handed to draw_rounded_rectangle
panel_start_by_margin(obj, xy) == <<xy[1] - obj.margin, xy[2] - obj.margin>>

panel_start(obj, xy) == <<xy[1] - obj.bg_padding, xy[2] - obj.bg_padding>>

panel_end(obj, xy, max_text_width, total_text_height) ==
    <<xy[1] + max_text_width, xy[2] + total_text_height>>

\* the baseline of line i (0-based) of the text loop
text_base_y(obj, y, i, size) ==
    LET initial_y_offset2 == 2 * obj.bg_padding - obj.bg_padding
        text_y2 == 2 * y + initial_y_offset2 + 2 * (i * (size[2] + obj.padding))
    IN py_int_halves(text_y2 + 2 * size[2])

RECURSIVE put_lines(_, _, _, _, _, _)
put_lines(obj, img, texts, text_sizes, xy, i) ==
    IF i >= Len(texts) THEN img
    ELSE put_lines(obj,
                   cv2_putText(img, texts[i + 1],
                               <<xy[1], text_base_y(obj, xy[2], i, text_sizes[i + 1])>>,
                               obj.font_scale, obj.font_color, obj.thickness),
                   texts, text_sizes, xy, i + 1)

\* put_text: the renderer after the call and what the call returned or raised
put_text(obj, texts, bbox0, position, bbox_color) ==
    LET o1 == IF truthy(bbox0) THEN draw_bbox(obj, bbox0, bbox_color, obj.thickness) ELSE obj
        bbox == IF truthy(bbox0) THEN bbox0
                ELSE <<0, 0, obj.image.shape[2], obj.image.shape[1]>>
        text_sizes == [i \in 1..Len(texts) |->
                          cv2_getTextSize(texts[i], obj.font_scale, obj.thickness)]
        widest == py_max([i \in 1..Len(texts) |-> text_sizes[i][1]])
    IN IF widest.raised THEN [obj |-> o1, ret |-> "ValueError"]
       ELSE
        LET max_text_width == widest.value + 2 * obj.bg_padding
            total_text_height ==
                py_sum([i \in 1..Len(texts) |-> text_sizes[i][2]])
                + (Len(texts) - 1) * obj.padding + 2 * obj.bg_padding
            xy == resolve(o1, bbox, position, max_text_width, total_text_height).xy
            o2 == draw_rounded_rectangle(o1,
                      panel_start(obj, xy),
                      panel_end(obj, xy, max_text_width, total_text_height),
                      obj.corner_radius, obj.background_color, -1)
        IN [obj |-> [o2 EXCEPT !.image = put_lines(o2, o2.image, texts, text_sizes, xy, 0)],
            ret |-> "image"]

----------------------------------------------------------------------------
(* The renderer and the calls made on it                                   *)

\* the buffer as an operation finds it: nothing drawn by this operation yet
Before(obj) == [obj EXCEPT !.image.draws = <<>>]

NoCall ==
    [op |-> "__init__", texts |-> <<>>, bbox |-> None, position |-> <<>>,
     color |-> Black, start_point |-> <<0, 0>>, end_point |-> <<0, 0>>,
     radius |-> 0, thickness |-> 0]

RectStarts == {<<20, 20>>, <<60, 40>>}
RectSizes == {<<60, 40>>, <<100, 80>>}
Radii == {10, 5}
RectThicknesses == {-1, 1, 2}

Init ==
    /\ \E shape \in ImageShapes : self = TextOverlay(shape)
    /\ pc = "idle"
    /\ call = NoCall
    /\ ret = "None"
    /\ configured = <<>>

SetTextProperties ==
    /\ pc = "idle"
    /\ pc' = "returned"
    /\ \E fs \in FontScales, fc \in FontColors, t \in Thicknesses, bg \in BackgroundColors :
        /\ self' = set_text_properties(Before(self), fs, fc, t, bg)
        /\ call' = [NoCall EXCEPT !.op = "set_text_properties", !.thickness = t, !.color = fc]
        /\ ret' = "None"
        /\ configured' = <<fs, fc, t, bg>>

DrawRoundedRectangle ==
    /\ pc = "idle"
    /\ pc' = "returned"
    /\ \E s \in RectStarts, sz \in RectSizes, r \in Radii, c \in {Green, Red},
       t \in RectThicknesses :
        /\ self' = draw_rounded_rectangle(Before(self), s, <<s[1] + sz[1], s[2] + sz[2]>>, r, c, t)
        /\ call' = [NoCall EXCEPT !.op = "draw_rounded_rectangle", !.start_point = s,
                                  !.end_point = <<s[1] + sz[1], s[2] + sz[2]>>,
                                  !.radius = r, !.color = c, !.thickness = t]
        /\ ret' = "None"
        /\ UNCHANGED configured

DrawBbox ==
    /\ pc = "idle"
    /\ pc' = "returned"
    /\ \E b \in BBoxes \ {None}, c \in {Green, Red}, t \in Thicknesses :
        /\ self' = draw_bbox(Before(self), b, c, t)
        /\ call' = [NoCall EXCEPT !.op = "draw_bbox", !.bbox = b, !.color = c, !.thickness = t]
        /\ ret' = "None"
        /\ UNCHANGED configured

PutText ==
    /\ pc = "idle"
    /\ pc' = "returned"
    /\ \E texts \in TextLists, b \in BBoxes, p \in PositionNames, c \in {Green, Red} :
        LET r == put_text(Before(self), texts, b, p, c)
        IN /\ self' = r.obj
           /\ call' = [NoCall EXCEPT !.op = "put_text", !.texts = texts, !.bbox = b,
                                     !.position = p, !.color = c]
           /\ ret' = r.ret
           /\ UNCHANGED configured

\* the caller is done with the result and is ready for its next call
Return ==
    /\ pc = "returned"
    /\ pc' = "idle"
    /\ self' = Before(self)
    /\ call' = NoCall
    /\ ret' = "None"
    /\ UNCHANGED configured

Next == SetTextProperties \/ DrawRoundedRectangle \/ DrawBbox \/ PutText \/ Return

Spec == Init /\ [][Next]_vars

----------------------------------------------------------------------------
(* What a call left behind, read off the state                             *)

Draws == self.image.draws
ImageHeight == self.image.shape[1]
ImageWidth == self.image.shape[2]

Returned(op) == pc = "returned" /\ call.op = op

\* the defaults of the constructor
Margin == 20
Padding == 20
BgPadding == 10
CornerRadius == 10

\* the pixels a recorded primitive writes
InPolygon(pts, p) ==
    LET n == Len(pts)
        crossing(i) ==
            LET a == pts[i]
                b == pts[(i % n) + 1]
                dy == b[2] - a[2]
            IN /\ (a[2] > p[2]) # (b[2] > p[2])
               /\ IF dy > 0
                  THEN (p[1] - a[1]) * dy < (p[2] - a[2]) * (b[1] - a[1])
                  ELSE (p[1] - a[1]) * dy > (p[2] - a[2]) * (b[1] - a[1])
    IN Cardinality({i \in 1..n : crossing(i)}) % 2 = 1

InArc(d, p) ==
    LET dx == p[1] - d.pts[1][1]
        dy == p[2] - d.pts[1][2]
        r == d.axes[1]
        dist2 == dx * dx + dy * dy
        inner == IF 2 * r > d.thickness THEN 2 * r - d.thickness ELSE 0
    IN /\ CASE d.angle = 180 -> dx <= 0 /\ dy <= 0
            [] d.angle = 270 -> dx >= 0 /\ dy <= 0
            [] d.angle = 0 -> dx >= 0 /\ dy >= 0
            [] OTHER -> dx <= 0 /\ dy >= 0
       /\ IF d.thickness < 0 THEN dist2 <= r * r
          ELSE /\ inner * inner <= 4 * dist2
               /\ 4 * dist2 <= (2 * r + d.thickness) * (2 * r + d.thickness)

Between(a, v, b) == (a <= v /\ v <= b) \/ (b <= v /\ v <= a)
Abs(v) == IF v < 0 THEN -v ELSE v

OnLine(d, p) ==
    LET a == d.pts[1]
        b == d.pts[2]
    IN \/ a[2] = b[2] /\ Between(a[1], p[1], b[1]) /\ 2 * Abs(p[2] - a[2]) <= d.thickness
       \/ a[1] = b[1] /\ Between(a[2], p[2], b[2]) /\ 2 * Abs(p[1] - a[1]) <= d.thickness

InText(d, p) ==
    LET size == cv2_getTextSize(d.text, d.scale, d.thickness)
        org == d.pts[1]
    IN /\ org[1] <= p[1] /\ p[1] <= org[1] + size[1]
       /\ org[2] - size[2] <= p[2] /\ p[2] <= org[2]

Covers(d, p) ==
    CASE d.fn = "fillPoly" -> InPolygon(d.pts, p)
      [] d.fn = "ellipse" -> InArc(d, p)
      [] d.fn = "line" -> OnLine(d, p)
      [] OTHER -> InText(d, p)

\* pixel p of the buffer was written by the call
Written(p) ==
    /\ 0 <= p[1] /\ p[1] < ImageWidth /\ 0 <= p[2] /\ p[2] < ImageHeight
    /\ \E i \in DOMAIN Draws : Covers(Draws[i], p)

\* the rectangle a fillPoly of draw_rounded_rectangle spans
RectStart(d) == <<d.pts[8][1], d.pts[1][2]>>
RectEnd(d) == <<d.pts[3][1], d.pts[5][2]>>

Of(fn) == SelectSeq(Draws, LAMBDA d : d.fn = fn)

\* put_text returned the image: the panel and the text lines it drew
PutTextDone == Returned("put_text") /\ ret = "image"
Panel == Of("fillPoly")[1]
TextDraws == Of("putText")

\* the bbox placement is computed against, and the measured block
UsedBBox == IF call.bbox # <<>> THEN call.bbox ELSE <<0, 0, ImageWidth, ImageHeight>>
Size(i) == cv2_getTextSize(call.texts[i], self.font_scale, self.thickness)
Widest ==
    CHOOSE m \in {Size(i)[1] : i \in DOMAIN call.texts} :
        \A i \in DOMAIN call.texts : Size(i)[1] <= m
RECURSIVE HeightsUpTo(_)
HeightsUpTo(n) == IF n = 0 THEN 0 ELSE HeightsUpTo(n - 1) + Size(n)[2]
MaxTextWidth == Widest + 2 * BgPadding
TotalTextHeight ==
    HeightsUpTo(Len(call.texts)) + (Len(call.texts) - 1) * Padding + 2 * BgPadding

InsideAnchors ==
    { inside_top_left, inside_top_center, inside_top_right,
      inside_bottom_left, inside_bottom_center, inside_bottom_right }
OutsideTopBottom ==
    { outside_top_left, outside_top_center, outside_top_right,
      outside_bottom_left, outside_bottom_center, outside_bottom_right }

\* the (x, y) the docstring's anchor names stand for
AnchorX(name) ==
    LET b == UsedBBox
    IN CASE name \in {inside_top_left, inside_bottom_left, outside_top_left, outside_bottom_left}
              -> b[1] + Margin
         [] name \in {inside_top_center, inside_bottom_center, outside_top_center,
                      outside_bottom_center}
              -> b[1] + (b[3] - MaxTextWidth) \div 2
         [] name \in {inside_top_right, inside_bottom_right, outside_top_right,
                      outside_bottom_right}
              -> b[1] + b[3] - MaxTextWidth - Margin
         [] name = outside_left -> b[1] - MaxTextWidth - Margin
         [] OTHER -> b[1] + b[3] + Margin

AnchorY(name) ==
    LET b == UsedBBox
    IN CASE name \in {inside_top_left, inside_top_center, inside_top_right}
              -> b[2] + Margin
         [] name \in {inside_bottom_left, inside_bottom_center, inside_bottom_right}
              -> b[2] + b[4] - TotalTextHeight - Margin
         [] name \in {outside_top_left, outside_top_center, outside_top_right}
              -> b[2] - TotalTextHeight - Margin
         [] name \in {outside_bottom_left, outside_bottom_center, outside_bottom_right}
              -> b[2] + b[4] + Margin
         [] OTHER -> b[2] + (b[4] - TotalTextHeight) \div 2

\* the block at (x, y) lies within the image
BlockFits(x, y) ==
    /\ 0 <= x /\ x + MaxTextWidth <= ImageWidth
    /\ 0 <= y /\ y + TotalTextHeight <= ImageHeight

\* no edge-fit correction fires for the requested anchor
AnchorKept ==
    /\ call.position \in Anchors
    /\ \/ call.position \in InsideAnchors
       \/ BlockFits(AnchorX(call.position), AnchorY(call.position))

----------------------------------------------------------------------------
(* C1 *)

\* C1 as stated: for a single-line text and an anchor that is kept, the
\* top-left corner of the background panel is the anchor's (x, y).
C1_PanelTopLeftIsAnchor ==
    (PutTextDone /\ Len(call.texts) = 1 /\ AnchorKept)
        => RectStart(Panel) = <<AnchorX(call.position), AnchorY(call.position)>>

\* C1, amended: for a single-line text and an anchor that is kept, the
\* top-left corner of the background panel lies bg_padding to the left of and
\* bg_padding above the anchor's (x, y).
C1_PanelTopLeftIsAnchorLessBgPadding ==
    (PutTextDone /\ Len(call.texts) = 1 /\ AnchorKept)
        => RectStart(Panel) = <<AnchorX(call.position) - BgPadding,
                                AnchorY(call.position) - BgPadding>>

C1_Witness ==
    /\ PutTextDone /\ Len(call.texts) = 1 /\ AnchorKept
    /\ call.position = outside_top_center
    /\ call.bbox = <<60, 100, 100, 60>>
    /\ RectStart(Panel) = <<AnchorX(outside_top_center) - 10, AnchorY(outside_top_center) - 10>>

----------------------------------------------------------------------------
(* C5 *)

\* the resolved (x, y) of the text block: the text is drawn left-anchored at
\* x, and the panel starts bg_padding above and to the left of it
BlockX == TextDraws[1].pts[1][1]
BlockY == RectStart(Panel)[2] + BgPadding

\* C5: the background panel is the text block (max_text_width wide and
\* total_text_height high, at the resolved (x, y)) extended by
\* background_padding on all four sides.
C5_PanelIsBlockPaddedOnAllSides ==
    PutTextDone =>
        /\ RectStart(Panel) = <<BlockX - BgPadding, BlockY - BgPadding>>
        /\ RectEnd(Panel) = <<BlockX + MaxTextWidth + BgPadding,
                              BlockY + TotalTextHeight + BgPadding>>

----------------------------------------------------------------------------
(* C10 *)

\* C10: when put_text is called with an outside_* anchor and the edge-fit
\* test passes, the background panel drawn lies within the image bounds.
C10_KeptOutsidePanelWithinImage ==
    (/\ PutTextDone
     /\ call.position \in Anchors \ InsideAnchors
     /\ BlockFits(AnchorX(call.position), AnchorY(call.position)))
        => /\ 0 <= RectStart(Panel)[1] /\ RectEnd(Panel)[1] <= ImageWidth
           /\ 0 <= RectStart(Panel)[2] /\ RectEnd(Panel)[2] <= ImageHeight

----------------------------------------------------------------------------
(* C2 *)

\* the inside_* anchor named like an outside_top_* / outside_bottom_* one
InsideOf(name) ==
    CASE name = outside_top_left -> inside_top_left
      [] name = outside_top_center -> inside_top_center
      [] name = outside_top_right -> inside_top_right
      [] name = outside_bottom_left -> inside_bottom_left
      [] name = outside_bottom_center -> inside_bottom_center
      [] OTHER -> inside_bottom_right

EdgeFitFails ==
    /\ PutTextDone
    /\ call.position \in OutsideTopBottom
    /\ ~BlockFits(AnchorX(call.position), AnchorY(call.position))

\* C2: when the block of an outside_top_* / outside_bottom_* anchor does not
\* fit the image, put_text draws exactly what a direct request for the
\* same-named inside_* anchor draws, with the block at that anchor's (x, y),
\* whether or not the inside placement fits.
C2_EdgeFitFallsBackToInside ==
    EdgeFitFails =>
        /\ self.image = put_text(Before(self), call.texts, call.bbox,
                                 InsideOf(call.position), call.color).obj.image
        /\ BlockX = AnchorX(InsideOf(call.position))
        /\ BlockY = AnchorY(InsideOf(call.position))

C2_Witness ==
    /\ EdgeFitFails
    /\ call.position = outside_bottom_left
    /\ call.bbox = <<170, 150, 60, 80>>
    /\ ~BlockFits(AnchorX(inside_bottom_left), AnchorY(inside_bottom_left))
    /\ BlockX = 190

----------------------------------------------------------------------------
(* C3 *)

Baseline(i) == TextDraws[i].pts[1][2]

----------------------------------------------------------------------------
(* C4 *)

RectCentre ==
    <<(call.start_point[1] + call.end_point[1]) \div 2,
      (call.start_point[2] + call.end_point[2]) \div 2>>

\* C4: draw_rounded_rectangle fills the interior only when thickness = -1;
\* for any other thickness the interior pixels are left as they were.
C4_InteriorFilledOnlyWhenThicknessMinusOne ==
    (Returned("draw_rounded_rectangle") /\ call.thickness # -1) => ~Written(RectCentre)

----------------------------------------------------------------------------
(* C6 *)

IsStroke(d) == d.fn = "line" \/ (d.fn = "ellipse" /\ d.thickness >= 0)

\* C6: put_text with a bbox draws its outline exactly once, first of all, in
\* bbox_color with stroke width thickness + 1; without a bbox it draws no
\* outline and places the block against [0, 0, image_width, image_height].
C6_OutlineOnceFirstAndOneThicker ==
    Returned("put_text") =>
        IF call.bbox # <<>>
        THEN /\ Len(Draws) >= 8
             /\ \A i \in DOMAIN Draws :
                    IF i <= 8
                    THEN /\ IsStroke(Draws[i])
                         /\ Draws[i].color = call.color
                         /\ Draws[i].thickness = self.thickness + 1
                    ELSE ~IsStroke(Draws[i])
             /\ Len(Of("line")) = 4
             /\ Of("line")[1].pts =
                    << <<call.bbox[1] + CornerRadius, call.bbox[2]>>,
                       <<call.bbox[1] + call.bbox[3] - CornerRadius, call.bbox[2]>> >>
        ELSE /\ \A i \in DOMAIN Draws : ~IsStroke(Draws[i])
             /\ (ret = "image" /\ call.position = inside_bottom_right) =>
                    /\ BlockX = ImageWidth - MaxTextWidth - Margin
                    /\ BlockY = ImageHeight - TotalTextHeight - Margin

C6_Witness ==
    /\ PutTextDone
    /\ call.bbox = <<60, 100, 100, 60>>
    /\ self.thickness = 3
    /\ Draws[1].fn = "line" /\ Draws[1].thickness = 4
    /\ Draws[9].fn = "fillPoly"

----------------------------------------------------------------------------
(* C7 *)

\* C7: after any sequence of calls, font_scale, font_color, thickness and
\* background_color are the arguments of the latest set_text_properties call
\* (the constructor's defaults if there was none), and every other style
\* field still has its constructor default.
C7_StyleChangesOnlyBySetTextProperties ==
    /\ <<self.font_scale, self.font_color, self.thickness, self.background_color>>
           = IF configured = <<>> THEN <<1, Black, 2, White>> ELSE configured
    /\ self.margin = 20 /\ self.padding = 20 /\ self.bg_padding = 10
    /\ self.corner_radius = 10
    /\ self.line_type = "LINE_AA" /\ self.font = "FONT_HERSHEY_SIMPLEX"

C7_Witness ==
    /\ Returned("put_text")
    /\ call.bbox # <<>>
    /\ configured = <<2, Red, 3, Green>>
    /\ self.thickness = 3
    /\ Draws[1].thickness = 4

----------------------------------------------------------------------------
(* C8 *)

EmptyTexts == Returned("put_text") /\ call.texts = <<>>

\* C8 as stated: put_text with an empty texts sequence fails, draws no panel
\* and no text, and leaves the image buffer unchanged.
C8_EmptyTextsFailsImageUnchanged ==
    EmptyTexts =>
        /\ ret = "ValueError"
        /\ Of("fillPoly") = <<>> /\ Of("putText") = <<>>
        /\ Draws = <<>>

\* C8, amended: put_text with an empty texts sequence fails, returns no
\* image and draws no panel and no text; the buffer is unchanged when no bbox
\* was given, and holds the bbox outline (and nothing else new) when one was.
C8_EmptyTextsFailsAfterOutline ==
    EmptyTexts =>
        /\ ret = "ValueError"
        /\ Of("fillPoly") = <<>> /\ Of("putText") = <<>>
        /\ IF call.bbox = <<>> THEN Draws = <<>>
           ELSE /\ Len(Draws) = 8
                /\ \A i \in DOMAIN Draws : IsStroke(Draws[i]) /\ Draws[i].color = call.color

C8_Witness ==
    /\ EmptyTexts
    /\ ret = "ValueError"
    /\ call.bbox = <<50, 50, 60, 40>>
    /\ Written(<<80, 50>>)
    /\ ~Written(<<80, 70>>)

----------------------------------------------------------------------------
(* C9 *)

\* C9: outside_left / outside_right whose block does not fit, and every name
\* that is no anchor and does not start with 'outside', place the block at
\* (margin, margin) of the image, whatever the bbox.
C9_UnknownNameFallsBackToMargin ==
    (/\ PutTextDone
     /\ \/ /\ call.position \in {outside_left, outside_right}
           /\ ~BlockFits(AnchorX(call.position), AnchorY(call.position))
        \/ call.position \in {center_name, top_outside, inside_left})
        => /\ BlockX = Margin /\ BlockY = Margin
           /\ RectStart(Panel) = <<Margin - BgPadding, Margin - BgPadding>>

C9_Witness ==
    /\ PutTextDone
    /\ call.position = outside_left
    /\ call.bbox = <<50, 50, 60, 40>>
    /\ ~BlockFits(AnchorX(outside_left), AnchorY(outside_left))
    /\ BlockX = 20 /\ BlockY = 20

============================================================================
